---- MODULE Spec2Model ----
(***************************************************************************)
(* Model of the multi-model inference server (src/src/api/server.py):      *)
(* the ModelManager state machine, the FastAPI handlers that drive it and  *)
(* the artifact store they probe.                                          *)
(*                                                                         *)
(* A manager field that holds an object read from an artifact is modelled  *)
(* by the name of the catalog entry the object was read from ("None" for   *)
(* Python's None); a backend handle also records what kind of artifact it  *)
(* was deserialised from.                                                  *)
(***************************************************************************)
EXTENDS Integers, FiniteSets, Sequences, TLC

\* Number of HTTP clients with at most one request in flight each.
NumClients == 2

Clients == 1..NumClients

\* ModelManager.AVAILABLE_MODELS: the static catalog.
AVAILABLE_MODELS ==
    [distilbert          |-> [type |-> "transformer"],
     logistic_regression |-> [type |-> "baseline"],
     linear_svm          |-> [type |-> "baseline"]]

ModelNames == DOMAIN AVAILABLE_MODELS

\* Names a request (or DEFAULT_MODEL) may carry: the catalog and one name
\* that is not in it.
RequestNames == ModelNames \cup {"invalid_model"}

\* What the files of a transformer artifact directory can be when read:
\* complete, labels.json absent, tokenizer files unreadable, weights
\* unreadable.
TransformerArtifacts == {"ok", "no_labels", "bad_tokenizer", "bad_weights"}

\* What a baseline .joblib file can be when read: a fitted pipeline with a
\* 'classifier' step, an undeserialisable file, a pipeline without a
\* 'classifier' step, a pipeline whose classifier has no usable classes_.
BaselineArtifacts == {"ok", "corrupt", "no_classifier", "bad_classes"}

ArtifactsOf(name) ==
    IF name \notin ModelNames THEN {"none"}
    ELSE IF AVAILABLE_MODELS[name].type = "transformer"
    THEN TransformerArtifacts ELSE BaselineArtifacts

\* Python's None for a backend handle.
NoHandle == [src |-> "None", art |-> "None"]

Handle(name, art) == [src |-> name, art |-> art]

VARIABLES
    model_manager,  \* the process-wide ModelManager instance
    disk,           \* disk[m]: does the artifact path of catalog entry m exist
    started,        \* has the lifespan startup block run
    loop,           \* the client whose handler occupies the event loop, or 0
    req,            \* req[c]: the request of client c and its handler position
    response,       \* the response sent by the step just taken (NoResponse
                    \* when the step sent none)
    dataset_labels, \* the classes of the label column the artifacts were
                    \* trained on
    st_session_state,  \* the UI's cached toxicity model (NotCached: none)
    ui_result,      \* what the UI's last predict_toxicity call returned
    connection,     \* what the API client's last test_connection call saw
                    \* and returned
    checkpoints,    \* the stage ids that have a flag file in CHECKPOINTS_DIR
    state_file,     \* STATE_FILE: the DeploymentState last saved, if any
    controller      \* the deployment controller process and its history

server_vars ==
    <<model_manager, disk, started, loop, req, response, dataset_labels>>

ui_vars == <<st_session_state, ui_result, connection>>

deploy_vars == <<checkpoints, state_file, controller>>

vars == <<server_vars, ui_vars, deploy_vars>>

(***************************************************************************)
(* ModelManager                                                            *)
(***************************************************************************)

\* ModelManager.__init__: nothing is loaded.
ManagerInit ==
    [current_model_name |-> "None",
     current_model_type |-> "None",
     model              |-> NoHandle,
     tokenizer          |-> NoHandle,
     pipeline           |-> NoHandle,
     label_mappings     |-> "None",
     device             |-> "None",
     id2label           |-> "None",
     label2id           |-> "None",
     classes            |-> "None"]

Raise(self, exc) == [self |-> self, raised |-> exc]

Return(self) == [self |-> self, raised |-> "None"]

\* ModelManager.get_available_models: the catalog entries whose path exists.
get_available_models == {m \in ModelNames : disk[m]}

\* ModelManager.is_loaded.
is_loaded(self) ==
    IF self.current_model_type = "transformer"
    THEN self.model # NoHandle /\ self.tokenizer # NoHandle
    ELSE IF self.current_model_type = "baseline"
    THEN self.pipeline # NoHandle
    ELSE FALSE

\* ModelManager._load_transformer_model, reading an artifact directory whose
\* content is art.
load_transformer_model(self, name, art) ==
    LET s1 == [self EXCEPT !.device = "torch"]
        s2 == [s1 EXCEPT !.label_mappings = name, !.id2label = name,
                         !.label2id = name, !.classes = name]
        s3 == [s2 EXCEPT !.tokenizer = Handle(name, "ok")]
        s4 == [s3 EXCEPT !.model = Handle(name, "ok")]
    IN  IF art = "no_labels" THEN Raise(s1, "LabelsNotFound")
        ELSE IF art = "bad_tokenizer" THEN Raise(s2, "TokenizerError")
        ELSE IF art = "bad_weights" THEN Raise(s3, "WeightsError")
        ELSE Return(s4)

\* ModelManager._load_baseline_model, reading a .joblib file whose content
\* is art.
load_baseline_model(self, name, art) ==
    LET s1 == [self EXCEPT !.pipeline = Handle(name, art)]
        s2 == [s1 EXCEPT !.classes = name, !.id2label = name,
                         !.label2id = name, !.device = "cpu"]
    IN  IF art = "corrupt" THEN Raise(self, "PipelineError")
        ELSE IF art = "no_classifier" THEN Raise(s1, "KeyError")
        ELSE IF art = "bad_classes" THEN Raise(s1, "AttributeError")
        ELSE Return(s2)

\* Mutant: the previous backend is not cleared before the new one is loaded.
ClearPreviousModel_skipped(self) == self

\* The "Clear previous model" block of load_model.
ClearPreviousModel(self) ==
    [self EXCEPT !.model = NoHandle, !.tokenizer = NoHandle,
                 !.pipeline = NoHandle]

\* Mutant: load_model clears the previous model before it validates the
\* name and the path.
load_model_clears_first(self, model_name, exists, art) ==
    LET cleared == ClearPreviousModel(self)
    IN  IF model_name \notin ModelNames THEN Raise(cleared, "ValueError")
        ELSE IF ~exists THEN Raise(cleared, "FileNotFoundError")
        ELSE
            LET type == AVAILABLE_MODELS[model_name].type
                r == IF type = "transformer"
                     THEN load_transformer_model(cleared, model_name, art)
                     ELSE load_baseline_model(cleared, model_name, art)
            IN  IF r.raised # "None" THEN r
                ELSE Return([r.self EXCEPT !.current_model_name = model_name,
                                           !.current_model_type = type])

\* ModelManager.load_model(model_name), with exists the answer of
\* model_path.exists() and art the content found on reading the artifact.
load_model(self, model_name, exists, art) ==
    IF model_name \notin ModelNames THEN Raise(self, "ValueError")
    ELSE IF ~exists THEN Raise(self, "FileNotFoundError")
    ELSE
        LET type == AVAILABLE_MODELS[model_name].type
            cleared == ClearPreviousModel(self)
            r == IF type = "transformer"
                 THEN load_transformer_model(cleared, model_name, art)
                 ELSE load_baseline_model(cleared, model_name, art)
        IN  IF r.raised # "None" THEN r
            ELSE Return([r.self EXCEPT !.current_model_name = model_name,
                                       !.current_model_type = type])

(***************************************************************************)
(* Scores                                                                  *)
(*                                                                         *)
(* A float is modelled by an exact fraction num/den.  np.exp and the       *)
(* exponential inside torch.softmax are modelled by the exponential of     *)
(* base 2 on integer arguments, which keeps what the score code relies on: *)
(* positive, strictly increasing, exp(a + b) = exp(a) * exp(b).            *)
(***************************************************************************)

\* Largest number of classes of the label column of a training set.
MaxClasses == 3

\* Logits and decision_function margins range over -MaxMargin..MaxMargin.
MaxMargin == 1

Margins == (-MaxMargin)..MaxMargin

\* predict_proba outputs are weights out of their sum.
MaxWeight == 2

Weights == 0..MaxWeight

\* The classes of a label column with n distinct values, as the loaders
\* store them: str(label) for the labels 0..n-1.
LabelSpace(n) == [i \in 1..n |-> ToString(i - 1)]

Frac(num, den) == [num |-> num, den |-> den]

One == Frac(1, 1)

\* a < b and a = b on fractions (denominators are positive).
Less(a, b) == a.num * b.den < b.num * a.den

Same(a, b) == a.num * b.den = b.num * a.den

RECURSIVE GCD(_, _)
GCD(a, b) == IF b = 0 THEN a ELSE GCD(b, a % b)

\* The fraction num/den in lowest terms (num >= 0, den > 0).
Reduced(num, den) == Frac(num \div GCD(num, den), den \div GCD(num, den))

\* Float addition, subtraction and division, exact and in lowest terms.
Add(a, b) == Reduced(a.num * b.den + b.num * a.den, a.den * b.den)

Sub(a, b) == Reduced(a.num * b.den - b.num * a.den, a.den * b.den)

Div(a, b) == Reduced(a.num * b.den, a.den * b.num)

\* np.exp(x) for an integer x.
exp(x) == IF x >= 0 THEN Frac(2 ^ x, 1) ELSE Frac(1, 2 ^ (0 - x))

\* Python's range(n) and a zero-based subscript of a list or array.
range(n) == 0..(n - 1)

At(a, i) == a[i + 1]

\* ndarray.sum() of an array of fractions (its first n entries).
RECURSIVE sum(_, _)
sum(a, n) == IF n = 0 THEN Frac(0, 1) ELSE Add(sum(a, n - 1), a[n])

\* np.max of a vector of integers.
Max(v) == CHOOSE x \in {v[i] : i \in DOMAIN v} :
              \A i \in DOMAIN v : v[i] <= x

\* np.argmax, torch.argmax over an array of fractions: the zero-based index
\* of the first maximum.
argmax(v) == CHOOSE i \in range(Len(v)) :
                 /\ \A j \in range(Len(v)) : ~Less(At(v, i), At(v, j))
                 /\ \A j \in range(i) : Less(At(v, j), At(v, i))

\* Softmax over a vector of margins, as _predict_baseline computes it:
\* exp(decision - max(decision)) / sum.  torch.softmax is the same function.
softmax(decision) ==
    LET exp_scores == [i \in DOMAIN decision |->
                          exp(decision[i] - Max(decision))]
        total == sum(exp_scores, Len(exp_scores))
    IN  [i \in DOMAIN decision |-> Div(exp_scores[i], total)]

\* The binary branch: the logistic squash of the one margin, as the pair
\* (1 - p, p).
sigmoid_pair(decision) ==
    LET p == Div(One, Add(One, exp(0 - decision)))
    IN  <<Sub(One, p), p>>

\* The uniform fallback np.ones(n) / n.
uniform(n) == [i \in 1..n |-> Frac(1, n)]

\* The list a manager field holds after a loader read it from an artifact:
\* every artifact of the catalog is trained on the one label column.
LabelList(field) == IF field = "None" THEN <<>> ELSE dataset_labels

\* The steps of _predict_transformer and of _predict_baseline in program
\* order: those between start_time = time.time() and the computation of
\* inference_time, and those after it.
transformer_timed_steps == <<"tokenizer", "model", "softmax_argmax">>

baseline_timed_steps == <<"pipeline_predict", "probabilities", "label2id">>

steps_after_clock == <<"score_list", "sorted">>

StepNames ==
    LET steps == transformer_timed_steps \o baseline_timed_steps
                   \o steps_after_clock
    IN  {steps[i] : i \in DOMAIN steps}

\* A step takes between one tick and MaxDuration ticks of time.time().
MaxDuration == 2

Costs == [StepNames -> 1..MaxDuration]

UnitCost == [s \in StepNames |-> 1]

\* The time.time() difference over a run of steps.
RECURSIVE Elapsed(_, _)
Elapsed(steps, cost) ==
    IF steps = <<>> THEN 0
    ELSE cost[Head(steps)] + Elapsed(Tail(steps), cost)

\* What a backend can answer to one inference call on a model of n classes.
\* api is the call that yields the scores: the forward pass of the
\* transformer ("logits"), classifier.predict_proba, classifier.
\* decision_function (one margin when n = 2, n margins otherwise), or
\* neither ("none", and then k is the class pipeline.predict answers).
\* cost is how long each step of the call takes, in clock ticks.
BackendRaises ==
    [raises |-> TRUE, api |-> "none", out |-> <<>>, k |-> 0,
     cost |-> UnitCost]

BackendAnswer(api, out, k) ==
    [raises |-> FALSE, api |-> api, out |-> out, k |-> k, cost |-> UnitCost]

TransformerOutputs(n) ==
    {BackendRaises}
    \cup {BackendAnswer("logits", out, 0) : out \in [1..n -> Margins]}

RECURSIVE Total(_, _)
Total(w, n) == IF n = 0 THEN 0 ELSE Total(w, n - 1) + w[n]

\* The rows predict_proba can return: n weights out of their positive sum.
ProbaRows(n) ==
    {[i \in 1..n |-> Frac(w[i], Total(w, n))] :
        w \in {v \in [1..n -> Weights] : Total(v, n) > 0}}

BaselineOutputs(n) ==
    {BackendRaises}
    \cup {BackendAnswer("predict_proba", out, 0) : out \in ProbaRows(n)}
    \cup {BackendAnswer("decision_function", out, 0) :
            out \in [1..(IF n = 2 THEN 1 ELSE n) -> Margins]}
    \cup {BackendAnswer("none", <<>>, k) : k \in range(n)}

\* Mutant: the list is returned in class-index order, unsorted.
sorted_reverse_unsorted(scores) == scores

\* sorted(scores, key=lambda x: x['score'], reverse=True): descending, and
\* entries of equal score keep their order (the sort is stable).
RECURSIVE sorted_reverse(_)
sorted_reverse(scores) ==
    IF scores = <<>> THEN <<>>
    ELSE LET n == Len(scores)
             x == scores[n]
             s == sorted_reverse(SubSeq(scores, 1, n - 1))
             k == Cardinality({i \in 1..(n - 1) :
                                 ~Less(s[i].score, x.score)})
         IN  SubSeq(s, 1, k) \o <<x>> \o SubSeq(s, k + 1, n - 1)

\* Mutant: the comprehension stops one class short.
score_list_skips_last(self, probs_np) ==
    [j \in 1..(Len(LabelList(self.classes)) - 1) |->
        [label |-> At(LabelList(self.id2label), j - 1),
         score |-> At(probs_np, j - 1)]]

\* "Prepare scores for all classes": one entry per index of self.classes.
score_list(self, probs_np) ==
    [j \in 1..Len(LabelList(self.classes)) |->
        [label |-> At(LabelList(self.id2label), j - 1),
         score |-> At(probs_np, j - 1)]]

NoResult ==
    [api |-> "None", predicted_label |-> "None", confidence |-> Frac(0, 1),
     scores |-> <<>>, inference_time_ms |-> 0, model |-> "None",
     backend |-> "None", labels |-> "None", call_time_ms |-> 0]

Failed(exc) == [raised |-> exc, result |-> NoResult]

\* The dictionary a _predict_* method returns; backend and labels record
\* which objects computed it, api which call yielded the scores, and
\* call_time_ms how long the method ran from its first statement to its
\* return.
Result(self, backend, api, predicted_label, confidence, scores, inference_time, call_time) ==
    [raised |-> "None",
     result |-> [api               |-> api,
                 predicted_label   |-> predicted_label,
                 confidence        |-> confidence,
                 scores            |-> scores,
                 inference_time_ms |-> inference_time,
                 model             |-> self.current_model_name,
                 backend           |-> backend.src,
                 labels            |-> self.id2label,
                 call_time_ms      |-> call_time]]

\* ModelManager._predict_transformer.
predict_transformer(self, raw) ==
    IF raw.raises THEN Failed("BackendError")
    ELSE IF self.id2label = "None" \/ self.classes = "None"
    THEN Failed("TypeError")
    ELSE
        LET probs_np == softmax(raw.out)
            predicted_idx == argmax(probs_np)
            id2label == LabelList(self.id2label)
        IN  IF predicted_idx \notin range(Len(id2label))
            THEN Failed("KeyError")
            ELSE IF Len(LabelList(self.classes)) > Len(probs_np)
            THEN Failed("IndexError")
            ELSE Result(self, self.model, raw.api,
                        At(id2label, predicted_idx),
                        At(probs_np, predicted_idx),
                        sorted_reverse(score_list(self, probs_np)),
                        Elapsed(transformer_timed_steps, raw.cost),
                        Elapsed(transformer_timed_steps
                                  \o steps_after_clock, raw.cost))

\* pipeline.predict([text])[0] of a linear classifier: the class of the
\* largest score (of a positive margin when there is one margin).
pipeline_predict(raw) ==
    IF raw.api = "none" THEN raw.k
    ELSE IF raw.api = "decision_function" /\ Len(raw.out) = 1
    THEN (IF raw.out[1] > 0 THEN 1 ELSE 0)
    ELSE IF raw.api = "decision_function"
    THEN argmax([i \in DOMAIN raw.out |-> Frac(raw.out[i], 1)])
    ELSE argmax(raw.out)

\* Mutant: the binary branch returns the pair (p, p).
proxy_scores_pair_of_p(decision) ==
    IF Len(decision) = 1
    THEN <<sigmoid_pair(decision[1])[2], sigmoid_pair(decision[1])[2]>>
    ELSE softmax(decision)

\* The decision_function branch of _predict_baseline.
proxy_scores(decision) ==
    IF Len(decision) = 1 THEN sigmoid_pair(decision[1])
    ELSE softmax(decision)

\* ModelManager._predict_baseline.
predict_baseline(self, raw) ==
    IF raw.raises THEN Failed("BackendError")
    ELSE IF self.pipeline.art = "no_classifier" THEN Failed("KeyError")
    ELSE IF self.label2id = "None" \/ self.classes = "None"
    THEN Failed("TypeError")
    ELSE
        LET predicted_label == At(dataset_labels, pipeline_predict(raw))
            classes == LabelList(self.classes)
            probs_np ==
                IF raw.api = "predict_proba" THEN raw.out
                ELSE IF raw.api = "decision_function"
                THEN proxy_scores(raw.out)
                ELSE uniform(Len(classes))
            label2id == LabelList(self.label2id)
        IN  IF \A i \in range(Len(label2id)) :
                   At(label2id, i) # predicted_label
            THEN Failed("KeyError")
            ELSE
                LET predicted_idx ==
                        CHOOSE i \in range(Len(label2id)) :
                            At(label2id, i) = predicted_label
                IN  IF Len(classes) > Len(probs_np)
                       \/ predicted_idx \notin range(Len(probs_np))
                    THEN Failed("IndexError")
                    ELSE Result(self, self.pipeline, raw.api,
                                predicted_label,
                                At(probs_np, predicted_idx),
                                sorted_reverse(score_list(self, probs_np)),
                                Elapsed(baseline_timed_steps, raw.cost),
                                Elapsed(baseline_timed_steps
                                          \o steps_after_clock, raw.cost))

\* Mutant: predict routes to the backend without the is_loaded() check.
predict_unguarded(self, raw) ==
    IF self.current_model_type = "transformer"
    THEN predict_transformer(self, raw)
    ELSE IF self.current_model_type = "baseline"
    THEN predict_baseline(self, raw)
    ELSE Failed("UnknownModelType")

\* ModelManager.predict.
predict(self, raw) ==
    IF ~is_loaded(self) THEN Failed("RuntimeError")
    ELSE IF self.current_model_type = "transformer"
    THEN predict_transformer(self, raw)
    ELSE IF self.current_model_type = "baseline"
    THEN predict_baseline(self, raw)
    ELSE Failed("UnknownModelType")

(***************************************************************************)
(* HTTP layer                                                              *)
(***************************************************************************)

HTTP_200_OK == 200
HTTP_400_BAD_REQUEST == 400
HTTP_422_UNPROCESSABLE_ENTITY == 422
HTTP_500_INTERNAL_SERVER_ERROR == 500
HTTP_503_SERVICE_UNAVAILABLE == 503

\* Longest text a client sends, in characters.
MaxTextLen == 2

\* One whitespace character and one other character.
Chars == {" ", "a"}

Texts == UNION {[1..n -> Chars] : n \in 0..MaxTextLen}

\* The JSON body of a POST /predict: with a text field or without one.
NoBody == [has_text |-> FALSE, text |-> <<>>]

Body(text) == [has_text |-> TRUE, text |-> text]

Bodies == {NoBody} \cup {Body(t) : t \in Texts}

\* Field(max_length=10000) of PredictRequest.text.
max_length == 10000

\* str.strip().
RECURSIVE strip(_)
strip(v) ==
    IF v = <<>> THEN v
    ELSE IF Head(v) = " " THEN strip(Tail(v))
    ELSE IF v[Len(v)] = " " THEN strip(SubSeq(v, 1, Len(v) - 1))
    ELSE v

\* Mutant: the validator returns the text it was given.
text_must_not_be_empty_unstripped(v) ==
    IF v = <<>> \/ strip(v) = <<>>
    THEN [raised |-> "ValueError", text |-> <<>>]
    ELSE [raised |-> "None", text |-> v]

\* PredictRequest.text_must_not_be_empty.
text_must_not_be_empty(v) ==
    IF v = <<>> \/ strip(v) = <<>>
    THEN [raised |-> "ValueError", text |-> <<>>]
    ELSE [raised |-> "None", text |-> strip(v)]

\* Building PredictRequest from a body: the field is required, its length
\* constraints are checked, then the validator runs.
PredictRequest(body) ==
    IF ~body.has_text THEN [raised |-> "missing", text |-> <<>>]
    ELSE IF Len(body.text) < 1
    THEN [raised |-> "string_too_short", text |-> <<>>]
    ELSE IF Len(body.text) > max_length
    THEN [raised |-> "string_too_long", text |-> <<>>]
    ELSE text_must_not_be_empty(body.text)

NoRequest == [kind |-> "none", model_name |-> "None", pc |-> "idle",
              overlap |-> FALSE, text |-> <<>>]

\* The JSON documents of the read-only handlers when there is none.
NoHealth ==
    [status |-> "None", model_loaded |-> FALSE, current_model |-> "None",
     available_models |-> {}, model_path |-> "None", num_classes |-> 0,
     classes |-> "None"]

NoModels == [current_model |-> "None", available_models |-> {},
             models |-> <<>>]

NoDocument == [health |-> NoHealth, models |-> NoModels]

NoResponse == [kind |-> "none", model_name |-> "None", status |-> 0,
               detail |-> "None", result |-> NoResult, body |-> NoDocument]

Response(kind, name, status, detail, result) ==
    [kind |-> kind, model_name |-> name, status |-> status,
     detail |-> detail, result |-> result, body |-> NoDocument]

\* The response of a handler that returns a JSON document.
JsonResponse(kind, body) ==
    [kind |-> kind, model_name |-> "None", status |-> HTTP_200_OK,
     detail |-> "None", result |-> NoResult, body |-> body]

\* The HealthResponse document health_check builds.  None is "None"; for
\* num_classes it is 0 (a loaded model has at least one class).  model_path
\* is given by the catalog entry the path belongs to ("" when there is none).
HealthResponse(self, available_models) ==
    LET loaded == is_loaded(self)
    IN  [status |-> IF loaded THEN "ok" ELSE "model_not_loaded",
         model_loaded |-> loaded,
         current_model |-> IF loaded THEN self.current_model_name ELSE "None",
         available_models |-> available_models,
         model_path |-> IF ~loaded THEN "None"
                        ELSE IF self.current_model_name \in ModelNames
                        THEN self.current_model_name ELSE "",
         num_classes |-> IF loaded THEN Len(LabelList(self.classes)) ELSE 0,
         classes |-> IF loaded THEN self.classes ELSE "None"]

\* The document list_models builds.
ModelsResponse(self, available_models) ==
    LET current_model == IF is_loaded(self) THEN self.current_model_name
                         ELSE "None"
    IN  [current_model |-> current_model,
         available_models |-> available_models,
         models |-> [model_name \in available_models |->
                       [type |-> AVAILABLE_MODELS[model_name].type,
                        is_current |-> model_name = current_model]]]

\* Mutant: the handlers are plain functions run on worker threads, so one
\* starts whatever the others are doing.
EventLoopIdle_threaded == TRUE

\* The handlers are coroutines (async def) without an await in their body:
\* one runs on the event loop to its end before another starts.
EventLoopIdle == loop = 0

\* Mutant: the already-current check compares the requested name with the
\* current model's type, so it never matches.
AlreadyUsing_type_compared(name) == model_manager.current_model_type = name

\* The "Check if already using this model" test of switch_model.
AlreadyUsing(name) == model_manager.current_model_name = name

\* Does the artifact load that request r performs run in the lifetime of a
\* request of the given kind and name: any load for a predict, a load of the
\* same id for a switch.
Concerns(r, kind, name) ==
    r.kind = "switch" /\ r.pc = "loading"
    /\ (kind = "predict" \/ r.model_name = name)

(***************************************************************************)
(* The Streamlit UI's toxicity model (src/src/ui/utils)                    *)
(***************************************************************************)

\* Largest number of categories of a toxicity model.
MaxCategories == 3

\* The label columns of the toxicity training set, in their canonical order.
ToxicityLabels ==
    <<"toxic", "severe_toxic", "obscene", "threat", "insult", "identity_hate">>

CategoryNames == {ToxicityLabels[i] : i \in 1..MaxCategories}

\* The label lists a toxicity artifact can carry: categories in any order.
LabelLists ==
    {l \in UNION {[1..n -> CategoryNames] : n \in 0..MaxCategories} :
        \A i, j \in DOMAIN l : l[i] = l[j] => i = j}

\* What models/toxicity_multi_head can be when load_toxicity_model reads it:
\* no directory, no config.json, files that do not load, or a model of
\* num_labels outputs with its label list.
NoToxicityArtifact(state) ==
    [state |-> state, labels |-> <<>>, num_labels |-> 0]

ToxicityArtifacts ==
    {NoToxicityArtifact(s) : s \in {"no_dir", "no_config", "unreadable"}}
    \cup [state : {"ok"}, labels : LabelLists, num_labels : 1..MaxCategories]

\* st.session_state without a 'toxicity_model' key, and Python's None.
NotCached == [labels |-> <<>>, num_labels |-> 0]

\* ModelManager.load_toxicity_model of the UI: the cached dictionary if there
\* is one, else the artifact's model and label list (cached), else None.
load_toxicity_model(session_state, art) ==
    IF session_state # NotCached
    THEN [session_state |-> session_state, data |-> session_state]
    ELSE IF art.state # "ok"
    THEN [session_state |-> session_state, data |-> NotCached]
    ELSE LET result == [labels |-> art.labels, num_labels |-> art.num_labels]
         IN  [session_state |-> result, data |-> result]

\* The values of one logit of the toxicity model.
ToxicityLogits == {-1, 0, 1}

\* torch.sigmoid of one logit.
torch_sigmoid(x) == Div(One, Add(One, exp(0 - x)))

\* torch.sigmoid(logits) works element by element: its value on each logit.
sigmoid_of == [x \in ToxicityLogits |-> torch_sigmoid(x)]

\* The thresholds a caller passes (0.5 by default).
Thresholds == {Frac(1, 2), Frac(2, 3)}

\* The dictionary predict_toxicity returns; threshold records the argument
\* of the call (0.5 when none was passed).
NoUiResult ==
    [error |-> "None", is_toxic |-> FALSE, toxicity_scores |-> <<>>,
     flagged_categories |-> <<>>, threshold |-> Frac(1, 2)]

UiError(message) == [NoUiResult EXCEPT !.error = message]

\* Mutant: a score equal to the threshold is flagged too.
is_flagged_at_threshold(score, threshold) == ~Less(score, threshold)

\* is_flagged = score > threshold.
is_flagged(score, threshold) == Less(threshold, score)

\* Mutant: the entries are sorted by score, as the API server sorts its
\* scores.
toxicity_entries_sorted(labels, probs, threshold) ==
    sorted_reverse([i \in DOMAIN labels |->
                       [category |-> labels[i], score |-> probs[i],
                        flagged |-> is_flagged(probs[i], threshold)]])

\* The "Create results" loop of predict_toxicity: one entry per label, in
\* the order of the label list.
toxicity_entries(labels, probs, threshold) ==
    [i \in DOMAIN labels |->
        [category |-> labels[i], score |-> probs[i],
         flagged |-> is_flagged(probs[i], threshold)]]

(***************************************************************************)
(* The UI's API client (src/src/ui/utils/api_inference.py)                 *)
(***************************************************************************)

\* No test_connection call has been made.
NotTested ==
    [is_connected |-> FALSE, message |-> "None", status_code |-> 0,
     data |-> NoHealth]

ConnectionResult(is_connected, message, r) ==
    [is_connected |-> is_connected, message |-> message,
     status_code |-> r.status, data |-> r.body.health]

\* Retry(status_forcelist=...) of the client's session: the statuses the
\* adapter retries, and gives up on with an exception.
status_forcelist == {429, 500, 502, 503, 504}

\* APIInferenceHandler.test_connection, given what session.get did: raised
\* an exception of requests, or returned the response r.
test_connection_result(raised, r) ==
    IF raised = "Timeout"
    THEN ConnectionResult(FALSE, "Connection timeout", NoResponse)
    ELSE IF raised = "ConnectionError"
    THEN ConnectionResult(FALSE, "Cannot connect", NoResponse)
    ELSE IF r.status \in status_forcelist
    THEN ConnectionResult(FALSE, "Connection test failed", NoResponse)
    ELSE IF r.status = HTTP_200_OK
    THEN IF r.body.health.status = "healthy"
         THEN ConnectionResult(TRUE, "Connected to API", r)
         ELSE ConnectionResult(FALSE, "API is not healthy", r)
    ELSE ConnectionResult(FALSE, "API returned status code", r)

(***************************************************************************)
(* The deployment controller (src/deploy-master-controller.py)             *)
(***************************************************************************)

Targets == {"local", "cloud", "both"}

\* STAGES: the stage definitions (id, required_for, optional), in the order
\* of the list.
STAGES ==
    <<[id |-> 0,  required_for |-> Targets,           optional |-> FALSE],
      [id |-> 1,  required_for |-> Targets,           optional |-> FALSE],
      [id |-> 2,  required_for |-> Targets,           optional |-> FALSE],
      [id |-> 3,  required_for |-> Targets,           optional |-> FALSE],
      [id |-> 4,  required_for |-> Targets,           optional |-> TRUE],
      [id |-> 5,  required_for |-> Targets,           optional |-> FALSE],
      [id |-> 6,  required_for |-> Targets,           optional |-> FALSE],
      [id |-> 7,  required_for |-> Targets,           optional |-> FALSE],
      [id |-> 8,  required_for |-> {"cloud", "both"}, optional |-> TRUE],
      [id |-> 9,  required_for |-> {"cloud", "both"}, optional |-> TRUE],
      [id |-> 10, required_for |-> {"cloud", "both"}, optional |-> TRUE]>>

StageIds == {STAGES[i].id : i \in DOMAIN STAGES}

\* The command lines considered pass --skip-stages for every stage after
\* MaxStage but the last one of the list.
MaxStage == 1

\* Controller processes started one after the other, and retries a user
\* asks for within one of them.
MaxRuns == 2

MaxRetries == 1

\* The ids a Python list comprehension over STAGES keeps, in list order.
RECURSIVE Filter(_, _)
Filter(stages, keep) ==
    IF stages = <<>> THEN <<>>
    ELSE IF Head(stages).id \in keep
    THEN <<Head(stages).id>> \o Filter(Tail(stages), keep)
    ELSE Filter(Tail(stages), keep)

RECURSIVE Reverse(_)
Reverse(seq) ==
    IF seq = <<>> THEN <<>> ELSE Reverse(Tail(seq)) \o <<Head(seq)>>

\* Mutant: the stages are taken from the end of the list.
get_stages_to_run_reversed(args) ==
    Reverse(Filter(STAGES,
                   {s \in StageIds :
                      /\ IF args.has_stage THEN s = args.stage
                         ELSE /\ \E i \in DOMAIN STAGES :
                                    /\ STAGES[i].id = s
                                    /\ args.target \in STAGES[i].required_for
                              /\ s \notin args.skip_stages
                      /\ ~(args.skip_toxicity /\ s = 4)
                      /\ ~(args.skip_ui /\ s = 10)}))

\* DeploymentController.get_stages_to_run: the ids of the stages to run.
get_stages_to_run(args) ==
    Filter(STAGES,
           {s \in StageIds :
              /\ IF args.has_stage THEN s = args.stage
                 ELSE /\ \E i \in DOMAIN STAGES :
                            /\ STAGES[i].id = s
                            /\ args.target \in STAGES[i].required_for
                      /\ s \notin args.skip_stages
              /\ ~(args.skip_toxicity /\ s = 4)
              /\ ~(args.skip_ui /\ s = 10)})

\* parse_arguments: the defaults, with --skip-stages as said above and
\* --stage given by has_stage and stage.
DefaultArgs ==
    [mode          |-> "interactive",
     target        |-> "local",
     resume        |-> FALSE,
     force         |-> FALSE,
     clean         |-> FALSE,
     dry_run       |-> FALSE,
     has_stage     |-> FALSE,
     stage         |-> 0,
     skip_stages   |-> {s \in StageIds :
                          s > MaxStage /\ s # STAGES[Len(STAGES)].id},
     skip_toxicity |-> FALSE,
     skip_ui       |-> FALSE]

\* The command lines considered: each mode alone, with --resume and with
\* --force, and in auto mode --clean, --dry-run, --target cloud and
\* --stage MaxStage --force.
CommandLines ==
    {[DefaultArgs EXCEPT !.mode = mode, !.resume = option = "resume",
                         !.force = option = "force"] :
        mode \in {"interactive", "auto"},
        option \in {"none", "resume", "force"}}
    \cup {[DefaultArgs EXCEPT !.mode = "auto", !.clean = TRUE],
          [DefaultArgs EXCEPT !.mode = "auto", !.dry_run = TRUE],
          [DefaultArgs EXCEPT !.mode = "auto", !.target = "cloud"],
          [DefaultArgs EXCEPT !.mode = "auto", !.force = TRUE,
                              !.skip_stages = {},
                              !.has_stage = TRUE, !.stage = MaxStage]}

\* DeploymentState(...) as initialize constructs it.  errors keeps the stage
\* of each error, stage_metrics its keys.
DeploymentState(mode, target) ==
    [mode |-> mode, target |-> target, current_stage |-> -1,
     completed_stages |-> <<>>, failed_stages |-> <<>>,
     skipped_stages |-> <<>>, stage_metrics |-> {}, errors |-> <<>>]

\* STATE_FILE does not exist.
NoStateFile ==
    [exists |-> FALSE, state |-> DeploymentState("interactive", "local")]

\* The record of one call of a stage executor: what it answered, and what
\* the user chose at the prompt if there was one.
Attempt(stage_id, outcome) ==
    [stage |-> stage_id, outcome |-> outcome, choice |-> "none"]

NoAttempt == Attempt(-1, "none")

\* No controller process has been started.  Besides the fields of
\* DeploymentController a process keeps the position of the stage loop
\* (stage), how many executor calls it made (executed) and the last of them
\* (attempt).
NoProcess ==
    [pc |-> "none",
     args          |-> DefaultArgs,
     stages_to_run |-> <<>>,
     stage         |-> 1,
     state         |-> DeploymentState("interactive", "local"),
     exit_status   |-> 0,
     runs          |-> 0,
     retries       |-> 0,
     executed      |-> 0,
     attempt       |-> NoAttempt]

\* Mutant: the flag file is not written.
CheckpointManager_save_nothing(flags, stage_id) == flags

\* CheckpointManager.save and CheckpointManager.exists over the flag files.
CheckpointManager_save(flags, stage_id) == flags \cup {stage_id}

CheckpointManager_exists(flags, stage_id) == stage_id \in flags

\* Mutant: --force is not looked at.
already_completed_force_ignored(flags, args, stage_id) ==
    CheckpointManager_exists(flags, stage_id)

\* The "Skip if already completed and not forcing" test of execute_stage.
already_completed(flags, args, stage_id) ==
    CheckpointManager_exists(flags, stage_id) /\ ~args.force

(***************************************************************************)
(* States and steps                                                        *)
(***************************************************************************)

Init ==
    /\ model_manager = ManagerInit
    /\ disk \in [ModelNames -> BOOLEAN]
    /\ started = FALSE
    /\ loop = 0
    /\ req = [c \in Clients |-> NoRequest]
    /\ response = NoResponse
    /\ dataset_labels = LabelSpace(2)
    /\ st_session_state = NotCached
    /\ ui_result = NoUiResult
    /\ connection = NotTested
    /\ checkpoints = {}
    /\ state_file = NoStateFile
    /\ controller = NoProcess

\* A training run writes the artifact of catalog entry m.
ArtifactWritten(m) ==
    /\ ~disk[m]
    /\ disk' = [disk EXCEPT ![m] = TRUE]
    /\ response' = NoResponse
    /\ UNCHANGED <<model_manager, started, loop, req, dataset_labels,
                 ui_vars, deploy_vars>>

\* The artifact of catalog entry m is removed from the disk.
ArtifactRemoved(m) ==
    /\ disk[m]
    /\ disk' = [disk EXCEPT ![m] = FALSE]
    /\ response' = NoResponse
    /\ UNCHANGED <<model_manager, started, loop, req, dataset_labels,
                 ui_vars, deploy_vars>>

\* Mutant: a failure to load the default model ends the startup.
lifespan_reraises(default_model, art) ==
    /\ ~started
    /\ LET r == load_model(model_manager, default_model,
                           default_model \in ModelNames /\ disk[default_model],
                           art)
       IN  /\ model_manager' = r.self
           /\ response' = Response("startup", default_model, 0, r.raised,
                                   NoResult)
           /\ started' = (r.raised = "None")
    /\ UNCHANGED <<disk, loop, req, dataset_labels,
                 ui_vars, deploy_vars>>

\* lifespan: load the default model (DEFAULT_MODEL, read at construction);
\* a failure is logged and the application starts anyway.
lifespan(default_model, art) ==
    /\ ~started
    /\ LET r == load_model(model_manager, default_model,
                           default_model \in ModelNames /\ disk[default_model],
                           art)
       IN  /\ model_manager' = r.self
           /\ response' = Response("startup", default_model, 0, r.raised,
                                   NoResult)
    /\ started' = TRUE
    /\ UNCHANGED <<disk, loop, req, dataset_labels,
                 ui_vars, deploy_vars>>

\* A client sends a request.  FastAPI builds the request model from the
\* body before it calls the handler: a body that does not validate is
\* answered 422 there; a valid request waits for the event loop.
Submit(c, kind, name, body) ==
    /\ started
    /\ req[c].pc = "idle"
    /\ LET r == IF kind = "predict" THEN PredictRequest(body)
                ELSE [raised |-> "None", text |-> <<>>]
       IN  IF r.raised # "None"
           THEN /\ response' = Response(kind, name,
                                        HTTP_422_UNPROCESSABLE_ENTITY,
                                        r.raised, NoResult)
                /\ req' = req
           ELSE /\ response' = NoResponse
                /\ req' = [req EXCEPT ![c] =
                             [kind |-> kind, model_name |-> name,
                              pc |-> "pending",
                              overlap |-> \E d \in Clients \ {c} :
                                              Concerns(req[d], kind, name),
                              text |-> r.text]]
    /\ UNCHANGED <<model_manager, disk, started, loop, dataset_labels,
                 ui_vars, deploy_vars>>

\* What the backend of the manager can answer to an inference call.
BackendOutputs(self) ==
    IF self.current_model_type = "transformer"
    THEN TransformerOutputs(Len(dataset_labels))
    ELSE BaselineOutputs(Len(dataset_labels))

\* One failing and one succeeding answer of each backend kind.
SampleOutputs(self) ==
    IF self.current_model_type = "transformer"
    THEN {BackendRaises,
          BackendAnswer("logits", [i \in 1..Len(dataset_labels) |-> 0], 0)}
    ELSE {BackendRaises, BackendAnswer("none", <<>>, 0)}

\* Mutant: the handler drops the backend when the prediction fails.
predict_handler_unloads_on_error(c, raw) ==
    /\ req[c].pc = "pending" /\ req[c].kind = "predict"
    /\ EventLoopIdle
    /\ IF ~is_loaded(model_manager)
       THEN /\ response' = Response("predict", "None",
                                    HTTP_503_SERVICE_UNAVAILABLE,
                                    "Model not loaded", NoResult)
            /\ model_manager' = model_manager
       ELSE LET r == predict(model_manager, raw)
            IN  IF r.raised # "None"
                THEN /\ response' = Response("predict", "None",
                                             HTTP_500_INTERNAL_SERVER_ERROR,
                                             r.raised, NoResult)
                     /\ model_manager' = ClearPreviousModel(model_manager)
                ELSE /\ response' = Response("predict", "None",
                                             HTTP_200_OK, "None", r.result)
                     /\ model_manager' = model_manager
    /\ req' = [req EXCEPT ![c] = NoRequest]
    /\ UNCHANGED <<disk, started, loop, dataset_labels,
                   ui_vars, deploy_vars>>

\* predict (POST /predict), the whole handler; raw is what the backend
\* answers if it is called.
predict_handler(c, raw) ==
    /\ req[c].pc = "pending" /\ req[c].kind = "predict"
    /\ EventLoopIdle
    /\ IF ~is_loaded(model_manager)
       THEN response' = Response("predict", "None",
                                 HTTP_503_SERVICE_UNAVAILABLE,
                                 "Model not loaded", NoResult)
       ELSE LET r == predict(model_manager, raw)
            IN  IF r.raised # "None"
                THEN response' = Response("predict", "None",
                                          HTTP_500_INTERNAL_SERVER_ERROR,
                                          r.raised, NoResult)
                ELSE response' = Response("predict", "None", HTTP_200_OK,
                                          "None", r.result)
    /\ req' = [req EXCEPT ![c] = NoRequest]
    /\ UNCHANGED <<model_manager, disk, started, loop, dataset_labels,
                 ui_vars, deploy_vars>>

\* The except clause of switch_model: whatever exception the try block
\* raised, the HTTPException of the validation included, is answered 500.
switch_except(raised_status) == HTTP_500_INTERNAL_SERVER_ERROR

\* The response of switch_model to a model_name that is not in the
\* availability listing: the HTTPException(400) raised inside the try block.
switch_unavailable(name) ==
    Response("switch", name, switch_except(HTTP_400_BAD_REQUEST),
             "not available", NoResult)

\* switch_model (POST /models/switch) up to the call of load_model: the
\* availability check and the already-current check.
switch_validate(c) ==
    /\ req[c].pc = "pending" /\ req[c].kind = "switch"
    /\ EventLoopIdle
    /\ LET name == req[c].model_name
       IN  IF name \notin get_available_models
           THEN /\ response' = switch_unavailable(name)
                /\ req' = [req EXCEPT ![c] = NoRequest]
                /\ loop' = loop
           ELSE IF AlreadyUsing(name)
           THEN /\ response' = Response("switch", name, HTTP_200_OK,
                                        "Already using model", NoResult)
                /\ req' = [req EXCEPT ![c] = NoRequest]
                /\ loop' = loop
           ELSE /\ response' = NoResponse
                /\ req' = [d \in Clients |->
                             IF d = c THEN [req[c] EXCEPT !.pc = "loading"]
                             ELSE IF req[d].pc = "pending"
                                     /\ (req[d].kind = "predict"
                                         \/ req[d].model_name = name)
                             THEN [req[d] EXCEPT !.overlap = TRUE]
                             ELSE req[d]]
                /\ loop' = c
    /\ UNCHANGED <<model_manager, disk, started, dataset_labels,
                 ui_vars, deploy_vars>>

\* switch_model from the call of load_model to the response.
switch_load(c, art) ==
    /\ req[c].pc = "loading" /\ loop = c
    /\ LET name == req[c].model_name
           r == load_model(model_manager, name, disk[name], art)
       IN  /\ model_manager' = r.self
           /\ IF r.raised # "None"
              THEN /\ response' = Response("switch", name,
                                     switch_except(HTTP_500_INTERNAL_SERVER_ERROR),
                                     r.raised, NoResult)
              ELSE /\ response' = Response("switch", name, HTTP_200_OK,
                                           "Successfully switched", NoResult)
    /\ req' = [req EXCEPT ![c] = NoRequest]
    /\ loop' = 0
    /\ UNCHANGED <<disk, started, dataset_labels,
                 ui_vars, deploy_vars>>

\* What the health_check handler answers: building the document raises when
\* len() is taken of classes that are None.
health_response ==
    IF is_loaded(model_manager) /\ model_manager.classes = "None"
    THEN Response("health", "None", HTTP_500_INTERNAL_SERVER_ERROR,
                  "TypeError", NoResult)
    ELSE JsonResponse("health",
                      [NoDocument EXCEPT !.health =
                          HealthResponse(model_manager, get_available_models)])

\* health_check (GET /health), the whole handler.
health_check ==
    /\ started /\ EventLoopIdle
    /\ response' = health_response
    /\ UNCHANGED <<model_manager, disk, started, loop, req, dataset_labels,
                   ui_vars, deploy_vars>>

\* list_models (GET /models), the whole handler.
list_models ==
    /\ started /\ EventLoopIdle
    /\ response' = JsonResponse("models",
                                [NoDocument EXCEPT !.models =
                                    ModelsResponse(model_manager,
                                                   get_available_models)])
    /\ UNCHANGED <<model_manager, disk, started, loop, req, dataset_labels,
                   ui_vars, deploy_vars>>

\* The exceptions session.get can raise before a response arrives.
RequestExceptions == {"Timeout", "ConnectionError"}

\* test_connection of the UI's API client, the whole call: the GET either
\* raises, or the server runs health_check and its response comes back.
test_connection(raised) ==
    /\ IF raised = "None"
       THEN /\ started /\ EventLoopIdle
            /\ response' = health_response
       ELSE response' = NoResponse
    /\ connection' = test_connection_result(raised, health_response)
    /\ UNCHANGED <<model_manager, disk, started, loop, req, dataset_labels,
                   st_session_state, ui_result, deploy_vars>>

Next ==
    \/ \E m \in ModelNames : ArtifactWritten(m)
    \/ \E m \in ModelNames : ArtifactRemoved(m)
    \/ \E n \in RequestNames : \E art \in ArtifactsOf(n) : lifespan(n, art)
    \/ \E c \in Clients : Submit(c, "predict", "None", Body(<<"a">>))
    \/ \E c \in Clients, n \in RequestNames : Submit(c, "switch", n, NoBody)
    \/ \E c \in Clients :
         \E raw \in SampleOutputs(model_manager) : predict_handler(c, raw)
    \/ \E c \in Clients : switch_validate(c)
    \/ \E c \in Clients :
         \E art \in ArtifactsOf(req[c].model_name) : switch_load(c, art)

Spec == Init /\ [][Next]_vars

\* Every client, over an artifact store that is complete and stays so.
InitServing ==
    /\ Init
    /\ disk = [m \in ModelNames |-> TRUE]

NextServing ==
    \/ \E n \in RequestNames : \E art \in ArtifactsOf(n) : lifespan(n, art)
    \/ \E c \in Clients : Submit(c, "predict", "None", Body(<<"a">>))
    \/ \E c \in Clients, n \in RequestNames : Submit(c, "switch", n, NoBody)
    \/ \E c \in Clients :
         \E raw \in SampleOutputs(model_manager) : predict_handler(c, raw)
    \/ \E c \in Clients : switch_validate(c)
    \/ \E c \in Clients :
         \E art \in ArtifactsOf(req[c].model_name) : switch_load(c, art)

SpecServing == InitServing /\ [][NextServing]_vars

\* One client at a time, with every body it can send and every label
\* column the artifacts can be trained on.
InitApi ==
    /\ model_manager = ManagerInit
    /\ disk \in [ModelNames -> BOOLEAN]
    /\ started = FALSE
    /\ loop = 0
    /\ req = [c \in Clients |-> NoRequest]
    /\ response = NoResponse
    /\ dataset_labels \in {LabelSpace(n) : n \in 2..MaxClasses}
    /\ st_session_state = NotCached
    /\ ui_result = NoUiResult
    /\ connection = NotTested
    /\ checkpoints = {}
    /\ state_file = NoStateFile
    /\ controller = NoProcess

NextApi ==
    \/ \E m \in ModelNames : ArtifactWritten(m)
    \/ \E m \in ModelNames : ArtifactRemoved(m)
    \/ \E n \in RequestNames : \E art \in ArtifactsOf(n) : lifespan(n, art)
    \/ \E body \in Bodies : Submit(1, "predict", "None", body)
    \/ \E n \in RequestNames : Submit(1, "switch", n, NoBody)
    \/ \E raw \in SampleOutputs(model_manager) : predict_handler(1, raw)
    \/ switch_validate(1)
    \/ \E art \in ArtifactsOf(req[1].model_name) : switch_load(1, art)

SpecApi == InitApi /\ [][NextApi]_vars

\* One client at a time over a complete artifact store, with every label
\* column the artifacts can be trained on and every answer of the backend.
InitScores ==
    /\ InitApi
    /\ disk = [m \in ModelNames |-> TRUE]

NextScores ==
    \/ \E n \in RequestNames : \E art \in ArtifactsOf(n) : lifespan(n, art)
    \/ Submit(1, "predict", "None", Body(<<"a">>))
    \/ \E n \in RequestNames : Submit(1, "switch", n, NoBody)
    \/ \E raw \in BackendOutputs(model_manager) : predict_handler(1, raw)
    \/ switch_validate(1)
    \/ \E art \in ArtifactsOf(req[1].model_name) : switch_load(1, art)

SpecScores == InitScores /\ [][NextScores]_vars

\* One client at a time over a complete artifact store, with every duration
\* of the steps of a prediction.
NextTiming ==
    \/ \E n \in RequestNames : \E art \in ArtifactsOf(n) : lifespan(n, art)
    \/ Submit(1, "predict", "None", Body(<<"a">>))
    \/ \E n \in RequestNames : Submit(1, "switch", n, NoBody)
    \/ \E raw \in SampleOutputs(model_manager), cost \in Costs :
         predict_handler(1, [raw EXCEPT !.cost = cost])
    \/ switch_validate(1)
    \/ \E art \in ArtifactsOf(req[1].model_name) : switch_load(1, art)

SpecTiming == InitServing /\ [][NextTiming]_vars

\* One client at a time, together with the read-only handlers and the UI's
\* API client.
NextStatus ==
    \/ \E m \in ModelNames : ArtifactWritten(m)
    \/ \E m \in ModelNames : ArtifactRemoved(m)
    \/ \E n \in RequestNames : \E art \in ArtifactsOf(n) : lifespan(n, art)
    \/ Submit(1, "predict", "None", Body(<<"a">>))
    \/ \E n \in RequestNames : Submit(1, "switch", n, NoBody)
    \/ \E raw \in SampleOutputs(model_manager) : predict_handler(1, raw)
    \/ switch_validate(1)
    \/ \E art \in ArtifactsOf(req[1].model_name) : switch_load(1, art)
    \/ health_check
    \/ list_models
    \/ \E raised \in RequestExceptions \cup {"None"} : test_connection(raised)

SpecStatus == Init /\ [][NextStatus]_vars

\* InferenceHandler.predict_toxicity, the whole call: logits is what the
\* model answers and raises whether the tokenizer or the model raises.
predict_toxicity(art, logits, threshold, raises) ==
    LET loaded == load_toxicity_model(st_session_state, art)
        labels == loaded.data.labels
        probs == [i \in DOMAIN logits |-> sigmoid_of[logits[i]]]
        entries == toxicity_entries(labels, probs, threshold)
        flagged == SelectSeq(entries, LAMBDA e : e.flagged)
    IN  /\ st_session_state' = loaded.session_state
        /\ ui_result' =
             IF loaded.data = NotCached
             THEN UiError("Toxicity model not loaded")
             ELSE IF raises \/ Len(labels) > Len(probs)
             THEN UiError("Prediction failed")
             ELSE [error |-> "None",
                   is_toxic |-> Len(flagged) > 0,
                   toxicity_scores |-> entries,
                   flagged_categories |->
                       [i \in DOMAIN flagged |-> flagged[i].category],
                   threshold |-> threshold]
        /\ UNCHANGED <<server_vars, connection, deploy_vars>>

\* A new browser session starts with an empty st.session_state.
NewSession ==
    /\ st_session_state' = NotCached
    /\ ui_result' = NoUiResult
    /\ UNCHANGED <<server_vars, connection, deploy_vars>>

InitUi ==
    /\ Init
    /\ disk = [m \in ModelNames |-> FALSE]

\* The artifact predict_toxicity reads: none when the model is cached.
ArtifactsRead ==
    IF st_session_state = NotCached THEN ToxicityArtifacts
    ELSE {NoToxicityArtifact("no_dir")}

\* The number of logits the model answers after reading art.
OutputsAfter(art) ==
    load_toxicity_model(st_session_state, art).data.num_labels

NextUi ==
    \/ \E art \in ArtifactsRead :
         \E logits \in [1..OutputsAfter(art) -> ToxicityLogits],
            threshold \in Thresholds :
              predict_toxicity(art, logits, threshold, FALSE)
    \/ \E art \in ArtifactsRead :
         predict_toxicity(art, [i \in 1..OutputsAfter(art) |-> 0],
                          Frac(1, 2), TRUE)
    \/ NewSession

SpecUi == InitUi /\ [][NextUi]_vars

\* main: a controller process is started with a command line.  run() calls
\* initialize (--clean, --resume, the prerequisites check), then
\* get_stages_to_run, and returns at once under --dry-run.
main(args, prerequisites) ==
    /\ controller.pc \in {"none", "exited"}
    /\ controller.runs < MaxRuns
    /\ LET flags == IF args.clean THEN {} ELSE checkpoints
           file == IF args.clean THEN NoStateFile ELSE state_file
           resume == args.resume /\ file.exists
           process ==
               [pc            |-> "running",
                args          |-> [args EXCEPT !.resume = resume],
                stages_to_run |-> get_stages_to_run(args),
                stage         |-> 1,
                state         |-> IF resume THEN file.state
                                  ELSE DeploymentState(args.mode, args.target),
                exit_status   |-> 0,
                runs          |-> controller.runs + 1,
                retries       |-> 0,
                executed      |-> 0,
                attempt       |-> NoAttempt]
       IN  /\ checkpoints' = flags
           /\ state_file' = file
           /\ controller' =
                IF ~prerequisites
                THEN [process EXCEPT !.pc = "exited", !.exit_status = 1,
                                     !.stages_to_run = <<>>]
                ELSE IF args.dry_run
                THEN [process EXCEPT !.pc = "exited"]
                ELSE process
    /\ UNCHANGED <<server_vars, ui_vars>>

\* What a stage executor can do: return True, return False, raise.
ExecutorOutcomes == {"success", "False", "raises"}

\* One iteration of the loop of run(): execute_stage for the next stage, up
\* to its return, its prompt or the exit of the process.
execute_stage(outcome) ==
    /\ controller.pc = "running"
    /\ controller.stage <= Len(controller.stages_to_run)
    /\ LET stage_id == controller.stages_to_run[controller.stage]
           running == [controller.state EXCEPT !.current_stage = stage_id]
           completed ==
               [running EXCEPT !.stage_metrics = @ \cup {stage_id},
                               !.completed_stages = Append(@, stage_id)]
           failed ==
               [running EXCEPT !.failed_stages = Append(@, stage_id),
                               !.errors = Append(@, stage_id)]
       IN  IF already_completed(checkpoints, controller.args, stage_id)
           THEN /\ controller' = [controller EXCEPT !.stage = @ + 1]
                /\ UNCHANGED <<checkpoints, state_file>>
           ELSE IF outcome = "success"
           THEN /\ checkpoints' = CheckpointManager_save(checkpoints, stage_id)
                /\ state_file' = [exists |-> TRUE, state |-> completed]
                /\ controller' =
                     [controller EXCEPT
                        !.state = completed,
                        !.stage = @ + 1,
                        !.executed = @ + 1,
                        !.attempt = Attempt(stage_id, outcome)]
           ELSE /\ checkpoints' = checkpoints
                /\ state_file' = [exists |-> TRUE, state |-> failed]
                /\ controller' =
                     [controller EXCEPT
                        !.state = failed,
                        !.pc = IF controller.args.mode = "interactive"
                               THEN "prompt" ELSE "exited",
                        !.exit_status =
                            IF controller.args.mode = "interactive"
                            THEN @ ELSE 1,
                        !.executed = @ + 1,
                        !.attempt = Attempt(stage_id, outcome)]
    /\ UNCHANGED <<server_vars, ui_vars>>

\* The prompt of execute_stage after a failure in interactive mode: Retry
\* calls execute_stage for the same stage, Skip returns True, anything else
\* aborts.
execute_stage_prompt(choice) ==
    /\ controller.pc = "prompt"
    /\ choice = "R" => controller.retries < MaxRetries
    /\ LET stage_id == controller.stages_to_run[controller.stage]
           answered == [controller EXCEPT !.attempt.choice = choice]
       IN  controller' =
             IF choice = "R"
             THEN [answered EXCEPT !.pc = "running", !.retries = @ + 1]
             ELSE IF choice = "S"
             THEN [answered EXCEPT
                     !.pc = "running",
                     !.stage = @ + 1,
                     !.state.skipped_stages = Append(@, stage_id)]
             ELSE [answered EXCEPT !.pc = "exited", !.exit_status = 1]
    /\ UNCHANGED <<checkpoints, state_file, server_vars, ui_vars>>

\* run() after the loop: the summary, the reports, and the process ends.
run_complete ==
    /\ controller.pc = "running"
    /\ controller.stage > Len(controller.stages_to_run)
    /\ controller' = [controller EXCEPT !.pc = "exited"]
    /\ UNCHANGED <<checkpoints, state_file, server_vars, ui_vars>>

NextDeploy ==
    \/ \E args \in CommandLines, prerequisites \in BOOLEAN :
         main(args, prerequisites)
    \/ \E outcome \in ExecutorOutcomes : execute_stage(outcome)
    \/ \E choice \in {"R", "S", "A"} : execute_stage_prompt(choice)
    \/ run_complete

SpecDeploy == InitUi /\ [][NextDeploy]_vars

(***************************************************************************)
(* Vocabulary of the properties                                            *)
(***************************************************************************)

\* The exceptions load_model raises after its existence checks, while it
\* reads the artifact.
BackendLoadErrors ==
    {"LabelsNotFound", "TokenizerError", "WeightsError", "PipelineError",
     "KeyError", "AttributeError"}

\* Every field a prediction reads belongs to the fully loaded model id.
FullyLoadedWith(self, id) ==
    /\ id \in ModelNames
    /\ self.current_model_name = id
    /\ self.current_model_type = AVAILABLE_MODELS[id].type
    /\ self.id2label = id /\ self.label2id = id /\ self.classes = id
    /\ IF AVAILABLE_MODELS[id].type = "transformer"
       THEN self.model = Handle(id, "ok") /\ self.tokenizer = Handle(id, "ok")
       ELSE self.pipeline = Handle(id, "ok")

\* The fields that decide which model serves a prediction are the same in
\* a and b.
SameServing(a, b) ==
    /\ a.current_model_name = b.current_model_name
    /\ a.current_model_type = b.current_model_type
    /\ a.model = b.model /\ a.tokenizer = b.tokenizer
    /\ a.pipeline = b.pipeline
    /\ a.id2label = b.id2label /\ a.label2id = b.label2id
    /\ a.classes = b.classes

\* The step taken is the handler of client c's switch request starting.
SwitchStarts(c) ==
    /\ req[c].pc = "pending" /\ req[c].kind = "switch"
    /\ req'[c].pc # "pending"

(***************************************************************************)
(* C1. Failed load preserves prior state: when a model is loaded and a     *)
(* load fails after the existence checks, the manager is still loaded      *)
(* with the same model, backend and label space afterwards.                *)
(***************************************************************************)
C1_FailedLoadPreservesPriorState ==
    [][(/\ response'.kind = "switch"
        /\ response'.detail \in BackendLoadErrors
        /\ is_loaded(model_manager))
       => (is_loaded(model_manager')
           /\ SameServing(model_manager', model_manager))]_vars

(***************************************************************************)
(* C2. Single active model: the transformer model/tokenizer and the        *)
(* sklearn pipeline are never both resident.                               *)
(***************************************************************************)
C2_SingleActiveModel ==
    ~ (/\ (model_manager.model # NoHandle
           \/ model_manager.tokenizer # NoHandle)
       /\ model_manager.pipeline # NoHandle)

\* A switch from the transformer to a baseline has just succeeded.
C2_Witness ==
    /\ response.kind = "switch" /\ response.status = HTTP_200_OK
    /\ response.detail = "Successfully switched"
    /\ model_manager.pipeline # NoHandle
    /\ model_manager.label_mappings = "distilbert"

(***************************************************************************)
(* C3. Status codes of POST /models/switch: a name that is not in the      *)
(* catalog, or whose artifact path is absent, is answered 400; only a      *)
(* failure while loading is answered 500.                                  *)
(***************************************************************************)
C3_SwitchStatusCodes ==
    response.kind = "switch" =>
        /\ response.detail = "not available"
             => response.status = HTTP_400_BAD_REQUEST
        /\ response.status = HTTP_500_INTERNAL_SERVER_ERROR
             => response.detail # "not available"

(***************************************************************************)
(* C4. Switch success postcondition: whenever POST /models/switch answers  *)
(* success for id (the already-using answer included), the manager is      *)
(* loaded with id and serves with id's backend and label space.            *)
(***************************************************************************)
C4_SwitchSuccessLoaded ==
    (response.kind = "switch" /\ response.status = HTTP_200_OK)
        => /\ is_loaded(model_manager)
           /\ FullyLoadedWith(model_manager, response.model_name)

(***************************************************************************)
(* C5. A load of an id that is not in the catalog, or whose artifact path  *)
(* does not exist, raises and leaves every ModelManager field unchanged.   *)
(***************************************************************************)
C5_RejectedLoadFrame ==
    [][(/\ response'.kind \in {"startup", "switch"}
        /\ response'.detail \in {"ValueError", "FileNotFoundError",
                                 "not available"})
       => model_manager' = model_manager]_vars

\* load_model has just raised FileNotFoundError inside a switch while a
\* model was loaded, and that model is still loaded.
C5_Witness ==
    /\ response.kind = "switch" /\ response.detail = "FileNotFoundError"
    /\ is_loaded(model_manager)
    /\ FullyLoadedWith(model_manager, model_manager.current_model_name)

(***************************************************************************)
(* C6. Switch idempotence.  As claimed: switch(id) when id is the loaded   *)
(* model performs no load, changes no manager field and returns success.   *)
(***************************************************************************)
C6_SwitchIdempotent_AsClaimed ==
    [][\A c \in Clients :
         (/\ SwitchStarts(c)
          /\ is_loaded(model_manager)
          /\ model_manager.current_model_name = req[c].model_name)
         => /\ req'[c].pc # "loading"
            /\ model_manager' = model_manager
            /\ response'.status = HTTP_200_OK]_vars

(***************************************************************************)
(* C6, amended: switch(id) when id is the loaded model performs no load    *)
(* and changes no manager field; it returns success when id's artifact     *)
(* path still exists, and an error response when it does not.              *)
(***************************************************************************)
C6_SwitchIdempotent ==
    [][\A c \in Clients :
         (/\ SwitchStarts(c)
          /\ is_loaded(model_manager)
          /\ model_manager.current_model_name = req[c].model_name)
         => /\ req'[c].pc # "loading"
            /\ model_manager' = model_manager
            /\ response'.kind = "switch"
            /\ IF disk[req[c].model_name]
               THEN /\ response'.status = HTTP_200_OK
                    /\ response'.detail = "Already using model"
               ELSE response'.status # HTTP_200_OK]_vars

\* The already-using answer has just been given for the loaded model.
C6_Witness ==
    /\ response.kind = "switch" /\ response.detail = "Already using model"
    /\ is_loaded(model_manager)
    /\ model_manager.current_model_name = response.model_name

(***************************************************************************)
(* C7. Once a load has succeeded the manager never returns to the          *)
(* not-loaded state: is_loaded() stays true after every later step.        *)
(***************************************************************************)
C7_NeverUnloaded ==
    [][is_loaded(model_manager) => is_loaded(model_manager')]_vars

(***************************************************************************)
(* C8. A predict that was in flight while a load ran reads, when its       *)
(* inference runs, only fields that belong to one fully loaded model.      *)
(***************************************************************************)
C8_PredictSeesOneModel ==
    [][\A c \in Clients :
         (/\ req[c].pc = "pending" /\ req[c].kind = "predict"
          /\ req[c].overlap
          /\ req'[c].pc = "idle"
          /\ response'.status # HTTP_503_SERVICE_UNAVAILABLE)
         => FullyLoadedWith(model_manager,
                            model_manager.current_model_name)]_vars

(***************************************************************************)
(* C9. A predict whose handler starts after a switch has answered success  *)
(* for id, with no request handled in between, is served by id: it is not  *)
(* refused as not-loaded and every field it reads belongs to id.           *)
(***************************************************************************)
C9_PredictAfterSwitch ==
    [][(/\ response.kind = "switch" /\ response.status = HTTP_200_OK
        /\ response'.kind = "predict")
       => /\ response'.status # HTTP_503_SERVICE_UNAVAILABLE
          /\ FullyLoadedWith(model_manager, response.model_name)
          /\ response'.status = HTTP_200_OK
               => /\ response'.result.model = response.model_name
                  /\ response'.result.backend = response.model_name
                  /\ response'.result.labels = response.model_name]_vars

PredictAnswered(c) ==
    /\ req[c].pc = "pending" /\ req[c].kind = "predict"
    /\ req'[c].pc = "idle"

\* C11 (result attribution): in every reachable state, failed loads
\* included, the model id carried in the result of a successful predict names
\* the model whose backend computed the scores.
C11_ResultAttribution ==
    (response.kind = "predict" /\ response.status = HTTP_200_OK)
        => response.result.model = response.result.backend

\* C12: while no model is loaded, ModelManager.predict raises the not-loaded
\* RuntimeError whether the backend would raise or answer, and POST /predict
\* is answered 503 with no result: no backend inference is run.
C12_NotLoadedRejected ==
    [][~is_loaded(model_manager) =>
          /\ \A raw \in SampleOutputs(model_manager) :
                 predict(model_manager, raw) = Failed("RuntimeError")
          /\ \A c \in Clients :
                 PredictAnswered(c) =>
                     response' = Response("predict", "None",
                                          HTTP_503_SERVICE_UNAVAILABLE,
                                          "Model not loaded", NoResult)]_vars

\* A POST /predict was answered 503 while the manager had a model type but
\* no backend (after a failed load).
C12_Witness ==
    /\ response.kind = "predict"
    /\ response.status = HTTP_503_SERVICE_UNAVAILABLE
    /\ model_manager.current_model_type = "baseline"
    /\ ~is_loaded(model_manager)


(***************************************************************************)
(* Errors of switch_model and the availability listing                     *)
(***************************************************************************)

\* What an API consumer can branch on in an error response.
ErrorKind(r) == <<r.status, r.detail>>

\* Why a POST /models/switch for the name in r was refused.
SwitchErrorCause(r) ==
    IF r.model_name \notin ModelNames THEN "unknown id"
    ELSE IF r.detail \in BackendLoadErrors THEN "backend crash"
    ELSE "artifact missing"

\* C13: for POST /models/switch the error responses to an id absent from
\* the catalog, to a catalogued id whose artifact is missing on disk and to a
\* backend load crash are pairwise distinguishable by status code or error
\* kind: an error response never looks like the refusal of a name that was
\* refused for another cause.
C13_SwitchErrorsDistinguishable ==
    \A n \in RequestNames :
        (/\ response.kind = "switch"
         /\ response.status # HTTP_200_OK
         /\ n \notin get_available_models
         /\ SwitchErrorCause(response) # SwitchErrorCause(switch_unavailable(n)))
            => ErrorKind(response) # ErrorKind(switch_unavailable(n))

\* Errors that say a file of the artifact is not there.
MissingFileErrors == {"FileNotFoundError", "LabelsNotFound"}

\* The step is the load_model call of the switch of client c.
SwitchLoads(c) ==
    /\ req[c].kind = "switch" /\ req[c].pc = "loading"
    /\ req'[c].pc = "idle"

\* C14: every model name get_available_models() returns can be passed to
\* load_model without a missing-file error.
C14_ListedModelsLoadable ==
    [][\A c \in Clients :
          (SwitchLoads(c) /\ req[c].model_name \in get_available_models)
              => response'.detail \notin MissingFileErrors]_vars


(***************************************************************************)
(* The scores list                                                         *)
(***************************************************************************)

\* The step just taken answered a POST /predict with a result.
PredictSucceeded ==
    response.kind = "predict" /\ response.status = HTTP_200_OK

\* The label space of the active model.
ActiveLabelSpace == LabelList(model_manager.classes)

\* C15 (score completeness): for any successful predict, the scores list
\* contains each label of the active model's label space exactly once and no
\* other label.
C15_ScoreCompleteness ==
    PredictSucceeded =>
        LET scores == response.result.scores
        IN  /\ \A i \in DOMAIN scores :
                   \E j \in DOMAIN ActiveLabelSpace :
                       scores[i].label = ActiveLabelSpace[j]
            /\ \A j \in DOMAIN ActiveLabelSpace :
                   Cardinality({i \in DOMAIN scores :
                                  scores[i].label = ActiveLabelSpace[j]}) = 1

\* A successful predict of a model of MaxClasses classes whose scores are
\* not in label order.
C15_Witness ==
    /\ PredictSucceeded
    /\ Len(response.result.scores) = MaxClasses
    /\ response.result.scores[1].label # ActiveLabelSpace[1]

\* C16 as claimed: the scores list returned by predict is sorted strictly
\* descending by score, for the transformer and for every baseline path.
C16_StrictlyDescending_AsClaimed ==
    PredictSucceeded =>
        LET scores == response.result.scores
        IN  \A i \in 1..(Len(scores) - 1) :
                Less(scores[i + 1].score, scores[i].score)

\* The position of a label in the active model's label space.
ClassIndex(label) ==
    CHOOSE j \in DOMAIN ActiveLabelSpace : ActiveLabelSpace[j] = label

\* C16, corrected: the scores list is sorted in non-increasing order of
\* score, and entries of equal score are in class-index order.
C16_Descending ==
    PredictSucceeded =>
        LET scores == response.result.scores
        IN  \A i \in 1..(Len(scores) - 1) :
                \/ Less(scores[i + 1].score, scores[i].score)
                \/ /\ Same(scores[i + 1].score, scores[i].score)
                   /\ ClassIndex(scores[i].label)
                          < ClassIndex(scores[i + 1].label)

\* A successful predict whose list was reordered by the sort and holds a tie.
C16_Witness ==
    /\ PredictSucceeded
    /\ response.result.scores[1].label # ActiveLabelSpace[1]
    /\ \E i \in 1..(Len(response.result.scores) - 1) :
           Same(response.result.scores[i].score,
                response.result.scores[i + 1].score)

\* The sum of the scores of a list.
ScoreSum(scores) ==
    sum([i \in DOMAIN scores |-> scores[i].score], Len(scores))

\* C18 (sum-to-one for proxies): when the classifier has no predict_proba,
\* the scores derived from decision_function sum to 1 (the pair 1-p, p of the
\* logistic squash for one margin, the softmax for several), and there is
\* exactly one score per class.
C18_ProxySumToOne ==
    (PredictSucceeded /\ response.result.api = "decision_function")
        => LET scores == response.result.scores
           IN  /\ Same(ScoreSum(scores), One)
               /\ Len(scores) = Len(dataset_labels)
               /\ \A i, j \in DOMAIN scores :
                      scores[i].label = scores[j].label => i = j

\* A POST /predict was answered with proxy scores that are not all equal.
C18_Witness ==
    /\ PredictSucceeded
    /\ response.result.api = "decision_function"
    /\ ~Same(response.result.scores[1].score,
             response.result.scores[Len(response.result.scores)].score)


(***************************************************************************)
(* The toxicity result                                                     *)
(***************************************************************************)

\* The last predict_toxicity call returned scores.
ToxicitySucceeded ==
    ui_result # NoUiResult /\ ui_result.error = "None"

\* C17 (multi-label result ordering): predict_toxicity returns one score
\* entry per category of the model's label list, in the order of that list,
\* whatever the scores are and whichever categories are flagged.
C17_ToxicityOrder ==
    ToxicitySucceeded =>
        LET labels == st_session_state.labels
            scores == ui_result.toxicity_scores
        IN  /\ Len(scores) = Len(labels)
            /\ \A i \in DOMAIN labels : scores[i].category = labels[i]

\* A result of several categories whose first entry is neither flagged nor
\* the highest score, next to a flagged one.
C17_Witness ==
    /\ ToxicitySucceeded
    /\ Len(ui_result.toxicity_scores) >= 2
    /\ ~ui_result.toxicity_scores[1].flagged
    /\ ui_result.toxicity_scores[2].flagged
    /\ Less(ui_result.toxicity_scores[1].score,
            ui_result.toxicity_scores[2].score)


(***************************************************************************)
(* Validation and the frame of predict                                     *)
(***************************************************************************)

\* A body whose text is missing, empty or whitespace-only.
Blank(body) == ~body.has_text \/ strip(body.text) = <<>>

\* A text without leading or trailing whitespace that is not empty.
Trimmed(text) == text # <<>> /\ strip(text) = text

\* C19 (input validation precedes the core): a POST /predict whose text is
\* missing, empty or whitespace-only is rejected with 422 before ModelManager
\* is consulted, whatever the loaded state (also when no model is loaded), and
\* the manager state is unchanged; any text that reaches ModelManager.predict
\* is trimmed and non-empty.
C19_ValidationFirst ==
    [][/\ \A c \in Clients, body \in Bodies :
              (Blank(body) /\ Submit(c, "predict", "None", body))
                  => /\ response'.status = HTTP_422_UNPROCESSABLE_ENTITY
                     /\ model_manager' = model_manager
                     /\ req' = req
       /\ \A c \in Clients :
              PredictAnswered(c) => Trimmed(req[c].text)]_vars

\* A whitespace-only text was answered 422 while no model was loaded.
C19_Witness ==
    /\ started /\ ~is_loaded(model_manager)
    /\ response.kind = "predict"
    /\ response.status = HTTP_422_UNPROCESSABLE_ENTITY
    /\ response.detail = "ValueError"

\* C20: predict never changes the loaded-model state: after any predict,
\* successful or failing, every ModelManager field is the same as before (a
\* backend exception is answered 500 to that request only), and the other
\* requests and the artifact store are as they were.
C20_PredictFrame ==
    [][\A c \in Clients :
          PredictAnswered(c)
              => /\ model_manager' = model_manager
                 /\ disk' = disk /\ loop' = loop
                 /\ \A d \in Clients \ {c} : req'[d] = req[d]
                 /\ response'.kind = "predict"
                 /\ response'.status \in
                        {HTTP_200_OK, HTTP_500_INTERNAL_SERVER_ERROR,
                         HTTP_503_SERVICE_UNAVAILABLE}]_vars

\* A backend exception was answered 500 while the model stayed loaded and
\* another client's request was waiting.
C20_Witness ==
    /\ response.kind = "predict"
    /\ response.status = HTTP_500_INTERNAL_SERVER_ERROR
    /\ response.detail = "BackendError"
    /\ is_loaded(model_manager)
    /\ \E c \in Clients : req[c].pc = "pending"


(***************************************************************************)
(* The read-only handlers                                                  *)
(***************************************************************************)

\* The id of the model the manager is fully loaded with, "None" when there
\* is none.
LoadedId ==
    IF \E id \in ModelNames : FullyLoadedWith(model_manager, id)
    THEN CHOOSE id \in ModelNames : FullyLoadedWith(model_manager, id)
    ELSE "None"

\* C21: GET /health is consistent with the manager in every reachable state:
\* model_loaded is true exactly when a backend is fully loaded; status is
\* "ok" when model_loaded and "model_not_loaded" otherwise; current_model
\* (with model_path, num_classes, classes) is non-null exactly when
\* model_loaded, and then equals the loaded model's id.
C21_HealthConsistent ==
    response.kind = "health" =>
        /\ response.status = HTTP_200_OK
        /\ LET h == response.body.health
           IN  /\ h.model_loaded <=> LoadedId # "None"
               /\ h.status = IF h.model_loaded THEN "ok"
                             ELSE "model_not_loaded"
               /\ h.current_model # "None" <=> h.model_loaded
               /\ h.model_path # "None" <=> h.model_loaded
               /\ h.num_classes # 0 <=> h.model_loaded
               /\ h.classes # "None" <=> h.model_loaded
               /\ h.model_loaded =>
                      /\ h.current_model = LoadedId
                      /\ h.model_path = LoadedId
                      /\ h.classes = LoadedId
                      /\ h.num_classes = Len(dataset_labels)

\* C22: GET /models is computed fresh on every call: it lists exactly the
\* catalogued models whose artifact is on disk when the call is made
\* (whether the artifact appeared or disappeared after startup), and
\* current_model is the loaded id, or null when nothing is loaded.
C22_ModelsFresh ==
    response.kind = "models" =>
        /\ response.status = HTTP_200_OK
        /\ response.body.models.available_models = {m \in ModelNames : disk[m]}
        /\ DOMAIN response.body.models.models = {m \in ModelNames : disk[m]}
        /\ response.body.models.current_model = LoadedId
        /\ \A m \in DOMAIN response.body.models.models :
               response.body.models.models[m].is_current <=> m = LoadedId


(***************************************************************************)
(* The UI client and the health protocol                                   *)
(***************************************************************************)

\* C30: the UI client and the server agree on the health protocol: whenever
\* the server answers GET /health with HTTP 200 and a loaded model,
\* test_connection() returns (True, ...); it returns False only when the
\* server is unreachable, times out, answers a non-200 status, or has no
\* model loaded.
C30_HealthProtocolAgreed ==
    connection # NotTested =>
        (connection.is_connected <=>
            /\ connection.status_code = HTTP_200_OK
            /\ connection.data.model_loaded)


(***************************************************************************)
(* The timing window                                                       *)
(***************************************************************************)

\* C23 (timing window): in every predict the inference-time clock is started
\* before tokenization/vectorization and stopped only after post-processing
\* (building and sorting the per-label scores), so the reported
\* inference_time_ms covers the full call, for both backends.
C23_TimingCoversCall ==
    PredictSucceeded =>
        response.result.inference_time_ms = response.result.call_time_ms


(***************************************************************************)
(* The deployment controller                                               *)
(***************************************************************************)

\* The step calls a stage executor; RanStage is the stage and RanOutcome
\* what the executor did.
ExecutorRuns ==
    /\ controller'.runs = controller.runs
    /\ controller'.executed = controller.executed + 1

RanStage == controller'.attempt.stage

RanOutcome == controller'.attempt.outcome

\* The step is one iteration of the stage loop of run().
StageLoopStep ==
    /\ controller.pc = "running"
    /\ controller.stage <= Len(controller.stages_to_run)
    /\ controller' # controller

\* C24 (checkpoint/resume): a stage whose checkpoint flag exists is never
\* executed again unless --force is given, so a run restarted after a failure
\* at stage k does not re-execute the stages completed before k and continues
\* with stage k (the first stage it executes is the first selected stage
\* without a flag); with --force every selected stage is executed again.
C24_CheckpointResume ==
    [][/\ ExecutorRuns =>
             /\ RanStage \in checkpoints => controller.args.force
             /\ (controller.executed = 0 /\ ~controller.args.force) =>
                    \A i \in DOMAIN controller.stages_to_run :
                        LET s == controller.stages_to_run[i]
                        IN  /\ s < RanStage => s \in checkpoints
                            /\ s = RanStage => s \notin checkpoints
       /\ (StageLoopStep /\ controller.args.force) =>
             /\ ExecutorRuns
             /\ RanStage = controller.stages_to_run[controller.stage]]_vars

\* A run resumed after a failure at stage 1 has skipped stage 0, which has
\* its flag, and has run stage 1 first, to success.
C24_Witness ==
    /\ controller.runs = MaxRuns
    /\ controller.args.resume /\ ~controller.args.force
    /\ controller.stages_to_run # <<>>
    /\ controller.stages_to_run[1] = 0
    /\ 0 \in checkpoints
    /\ Len(controller.state.failed_stages) > 0
    /\ controller.state.failed_stages[1] = 1
    /\ controller.executed = 1
    /\ controller.attempt = Attempt(1, "success")

Ascending(previous, next) ==
    \/ previous = NoAttempt
    \/ /\ previous.stage < next.stage
       /\ previous.outcome = "success" \/ previous.choice = "S"
    \/ /\ previous.stage = next.stage
       /\ previous.outcome # "success" /\ previous.choice = "R"

\* C29 (stage ordering and abort): stages are executed one at a time in
\* ascending stage id; in auto mode, when a stage fails, the failure is
\* recorded in failed_stages and persisted to the state file, no later stage
\* is executed and the process exits with a non-zero status; in interactive
\* mode a later stage runs only after the failing stage was retried to
\* success or explicitly skipped.
C29_StageOrderAndAbort ==
    [][/\ ExecutorRuns => Ascending(controller.attempt, controller'.attempt)
       /\ (/\ ExecutorRuns /\ RanOutcome # "success"
           /\ controller.args.mode = "auto") =>
             LET failed == controller'.state.failed_stages
             IN  /\ failed # <<>> /\ failed[Len(failed)] = RanStage
                 /\ state_file' = [exists |-> TRUE,
                                   state |-> controller'.state]
                 /\ controller'.pc = "exited"
                 /\ controller'.exit_status # 0
       /\ (controller.pc = "exited" /\ controller'.runs = controller.runs)
             => controller' = controller]_vars

\* An auto-mode process has exited with status 1 at a failing stage that was
\* neither the first nor the last of its stages.
C29_Witness ==
    /\ controller.pc = "exited" /\ controller.exit_status = 1
    /\ controller.args.mode = "auto"
    /\ controller.executed >= 2
    /\ controller.attempt.outcome = "False"
    /\ controller.stage < Len(controller.stages_to_run)

(***************************************************************************)
(* Startup with a failing default model                                    *)
(***************************************************************************)

\* The application has started and no load has succeeded yet: load_model
\* sets current_model_type at its end and nothing resets it.
NeverLoaded == started /\ model_manager.current_model_type = "None"

\* C25 (startup with a failing default model): if loading the default model
\* fails during startup the server still starts, with the manager not loaded;
\* from then on every GET /health reports model_loaded false and every valid
\* POST /predict is answered 503, until a POST /models/switch is answered 200
\* with the model loaded; after that a predict is no longer answered 503.
C25_FailedStartup ==
    [][/\ (~started /\ response'.kind = "startup") =>
             /\ started'
             /\ response'.detail # "None" =>
                    NeverLoaded' /\ ~is_loaded(model_manager')
       /\ (NeverLoaded /\ response'.kind = "health") =>
             /\ response'.status = HTTP_200_OK
             /\ ~response'.body.health.model_loaded
       /\ (NeverLoaded /\ response'.kind = "predict"
             /\ response'.status # HTTP_422_UNPROCESSABLE_ENTITY) =>
             response'.status = HTTP_503_SERVICE_UNAVAILABLE
       /\ (NeverLoaded /\ ~NeverLoaded') =>
             /\ response'.kind = "switch" /\ response'.status = HTTP_200_OK
             /\ FullyLoadedWith(model_manager', response'.model_name)
       /\ (NeverLoaded /\ response'.kind = "switch"
             /\ response'.status = HTTP_200_OK) =>
             /\ ~NeverLoaded'
             /\ is_loaded(model_manager')
       /\ (started /\ is_loaded(model_manager)
             /\ response'.kind = "predict") =>
             response'.status # HTTP_503_SERVICE_UNAVAILABLE]_vars

\* The default model failed to load at startup, no switch has succeeded
\* since, and a valid predict request has just been answered 503.
C25_Witness ==
    /\ NeverLoaded
    /\ response.kind = "predict"
    /\ response.status = HTTP_503_SERVICE_UNAVAILABLE


(***************************************************************************)
(* The winner and the score list                                           *)
(***************************************************************************)

\* C26 (winner consistency): in every successful single-label predict result
\* predicted_label is the label of the first entry of scores and confidence
\* is that entry's score, on the transformer backend and on every
\* probability path of the baseline backend (predict_proba, decision-function
\* proxy, uniform fallback).
C26_WinnerFirst ==
    PredictSucceeded =>
        /\ response.result.scores # <<>>
        /\ response.result.predicted_label = response.result.scores[1].label
        /\ response.result.confidence = response.result.scores[1].score

(***************************************************************************)
(* The toxicity flags                                                      *)
(***************************************************************************)

\* C27 (multi-label flag consistency): in every predict_toxicity result a
\* category's flagged field is true exactly when its score is strictly
\* greater than the threshold of the call, flagged_categories lists exactly
\* the flagged categories in label order, and is_toxic is true exactly when
\* flagged_categories is not empty.
C27_FlagsConsistent ==
    ToxicitySucceeded =>
        LET labels == st_session_state.labels
            scores == ui_result.toxicity_scores
            Flagged(l) == \E i \in DOMAIN scores :
                              scores[i].category = l /\ scores[i].flagged
        IN  /\ \A i \in DOMAIN scores :
                   scores[i].flagged
                     <=> Less(ui_result.threshold, scores[i].score)
            /\ ui_result.flagged_categories = SelectSeq(labels, Flagged)
            /\ ui_result.is_toxic <=> ui_result.flagged_categories # <<>>

\* A result at the default threshold in which one category scores exactly
\* the threshold and is not flagged, a later one scores more and is flagged,
\* and a third one in between is not.
C27_Witness ==
    /\ ToxicitySucceeded
    /\ ui_result.threshold = Frac(1, 2)
    /\ Len(ui_result.toxicity_scores) = MaxCategories
    /\ ui_result.toxicity_scores[1].score = Frac(1, 2)
    /\ ~ui_result.toxicity_scores[1].flagged
    /\ Less(ui_result.toxicity_scores[2].score, Frac(1, 2))
    /\ ui_result.toxicity_scores[MaxCategories].flagged
    /\ ui_result.is_toxic
    /\ Len(ui_result.flagged_categories) = 1

====
